---------------------------- MODULE Spec2Model ----------------------------
(***************************************************************************)
(* A model of AtariSIO2SD.ino, the SIO2SD Atari 1050 disk drive emulator:  *)
(* the checksum codec (sendwithchecksum, receivewithchecksum and the copy  *)
(* in handle_sio), the disk file backend (opendiskfile, readsector,        *)
(* writesector, diskavailable), the command frame reader and dispatcher    *)
(* (handle_sio, handlecommand_status/read/write) and the disk selector     *)
(* interrupt (polldiskselector).                                           *)
(*                                                                         *)
(* Three specifications share the definitions:                             *)
(*   SpecCk    the codec applied to byte spans drawn at Init;              *)
(*   SpecDisk  the backend functions called directly on a card whose file  *)
(*             header is drawn at Init;                                    *)
(*   Spec      the whole sketch: loop() running handle_sio against a host  *)
(*             that drives the command line and the serial line, with the  *)
(*             timer interrupt running in between.                         *)
(***************************************************************************)
EXTENDS Integers, Sequences, FiniteSets, TLC

\* ------------------------------------------------------------ bounds
\* longest byte span the codec is applied to in SpecCk
MaxLen == 4
\* capacity of the serial receive queue the host may fill ahead of the reader
MaxRx == 1
\* command-line assertions the host makes in one run
MaxFrames == 2
\* upsets in one run: a timer interrupt that changes a digit or the activity
\* light, a byte the host sends out of turn, a failing SD card operation
MaxUpsets == 1

\* ------------------------------------------------------------ program constants
SectorSize == 128
HeaderSize == 16
CommandSize == 5
StatusSize == 4
ActivityTicks == 10
MaxParagraphs == 458752      \* 0x70000
MinParagraphs == 8
EnhancedLimit == 720

Byte == 0..255

\* the response bytes handle_sio puts on the bus
ChrA == 65
ChrC == 67
ChrE == 69
ChrN == 78

CmdStatus == 83      \* 0x53
CmdRead == 82        \* 0x52
CmdWrite == 87       \* 0x57
FirstDevice == 49    \* 0x31
LastDevice == 51     \* 0x33

VARIABLES
    \* --- codec harness (SpecCk)
    ckin,       \* the byte span handed to sendwithchecksum
    ckwire,     \* the bytes sendwithchecksum wrote, as the receiver will see them
    ckres,      \* what the receiving side made of ckwire
    ckpc,       \* position of the harness
    \* --- the SD card and the disk file backend
    card,       \* the ATARI directory: its entries in scan order (name, header, size)
    disk,       \* per entry: the file's current size and the bytes written over it
    didinitsd,  \* bool didinitsd
    diskfile,   \* File diskfile
    disksize,   \* unsigned int disksize
    lastopen,   \* the arguments of the last call of opendiskfile: <<drive, index>>
    dlast,      \* SpecDisk: the last backend call and what it returned
    \* --- the host and the bus
    cmdline,    \* level of PIN_SIOCOMMAND: "LOW" is asserted
    rxq,        \* bytes received on SIO and not yet read: <<byte, frame>>, frame 0
                \* for a byte sent while the command line was high
    hframe,     \* the command frame the host sends under this assertion
    hsent,      \* bytes the host has sent under this assertion
    hdata,      \* the data block of a WRITE frame: "none", "owed" once the frame
                \* is acknowledged, "sent"
    nframes,    \* assertions of the command line so far
    nupsets,    \* upsets so far
    \* --- handle_sio
    pc,         \* where loop()/handle_sio is
    command,    \* byte command[5], the bytes stored so far
    cmdtag,     \* for each stored byte the frame it was sent under
    commandlength,
    drive,
    sector,
    selfirst,   \* getdiskselectorvalue: the digit read first and its value
    data,       \* handlecommand_write: byte data[128]
    trace,      \* what this call of handle_sio did: bytes written to SIO, backend
                \* calls, file accesses, in order
    pre,        \* the card contents and backend globals when handle_sio was entered
    lastlog,    \* the last diagnostic the call printed
    aborted,    \* the assertion of the command line under which handle_sio last
                \* returned without a whole frame; 0 if it never did
    shown,      \* the digit pairs <<digit0value, digit1value>> the selector held
                \* from the first read of getdiskselectorvalue in this call on
    \* --- disk selector
    digit0value,
    digit1value,
    activitylight

ckvars == <<ckin, ckwire, ckres, ckpc>>
cardvars == <<card, disk>>
backvars == <<didinitsd, diskfile, disksize, lastopen>>
hostvars == <<cmdline, rxq, hframe, hsent, hdata, nframes>>
devvars == <<pc, command, cmdtag, commandlength, drive, sector, selfirst, data,
             trace, pre, lastlog, aborted, shown>>
selvars == <<digit0value, digit1value, activitylight>>
siovars == <<hostvars, devvars, selvars, nupsets>>

vars == <<ckvars, cardvars, backvars, dlast, hostvars, devvars, selvars, nupsets>>
\* what Spec leaves alone
idlevars == <<ckvars, card, dlast>>

\* ------------------------------------------------------------ checksum codec

\* a sender that lets the sum wrap at 8 bits instead of folding the carry in
SendStep_Wrap(su, b) == (su + b) % 256

\* sendwithchecksum, one turn of its loop: sum += data[i], carry folded in
SendStep(su, b) ==
    LET s == su + b IN IF s >= 256 THEN (s - 256) + 1 ELSE s

RECURSIVE SendTurns(_, _, _, _)
\* sendwithchecksum, turns lo..hi of its loop started with sum = su: the turns lo..mid,
\* then the turns mid+1..hi from the value those leave
SendTurns(su, buf, lo, hi) ==
    IF lo > hi THEN su
    ELSE IF lo = hi THEN SendStep(su, buf[lo])
    ELSE LET mid  == (lo + hi) \div 2
             half == SendTurns(su, buf, lo, mid)
         IN  IF half >= 0 THEN SendTurns(half, buf, mid + 1, hi) ELSE half

\* sendwithchecksum, the value of sum after i turns of its loop
SendSum(buf, i) == SendTurns(0, buf, 1, i)

\* sendwithchecksum: the bytes written to SIO, SIO.write(sum) keeping the low byte
sendwithchecksum(buf, len) ==
    SubSeq(buf, 1, len) \o << SendSum(buf, len) % 256 >>

\* a receiver that drops the carry
RecvStep_NoCarry(su, b) ==
    LET s == su + b IN IF s >= 256 THEN s - 256 ELSE s

\* receivewithchecksum, one turn of its loop
RecvStep(su, b) ==
    LET s == su + b IN IF s >= 256 THEN (s - 256) + 1 ELSE s

RECURSIVE RecvTurns(_, _, _, _)
\* receivewithchecksum, turns lo..hi of its loop started with sum = su: the turns lo..mid,
\* then the turns mid+1..hi from the value those leave
RecvTurns(su, buf, lo, hi) ==
    IF lo > hi THEN su
    ELSE IF lo = hi THEN RecvStep(su, buf[lo])
    ELSE LET mid  == (lo + hi) \div 2
             half == RecvTurns(su, buf, lo, mid)
         IN  IF half >= 0 THEN RecvTurns(half, buf, mid + 1, hi) ELSE half

RecvSum(buf, i) == RecvTurns(0, buf, 1, i)

\* a receiver that reads the checksum byte and does not compare it
receivewithchecksum_Trusting(stream, len) ==
    [ data |-> SubSeq(stream, 1, len), ok |-> TRUE ]

\* receivewithchecksum on a stream holding at least len+1 bytes: the buffer
\* it filled and its return value
receivewithchecksum(stream, len) ==
    [ data |-> SubSeq(stream, 1, len),
      ok   |-> stream[len + 1] = RecvSum(stream, len) ]

\* handle_sio, the checksum loop over command[0..3]
CommandStep(su, b) ==
    LET s == su + b IN IF s >= 256 THEN (s - 256) + 1 ELSE s

RECURSIVE CommandSum(_, _)
CommandSum(cmd, i) ==
    IF i = 0 THEN 0 ELSE CommandStep(CommandSum(cmd, i - 1), cmd[i])

\* handle_sio: sum != command[4] drops the frame
CommandChecksumOk(cmd) == CommandSum(cmd, 4) = cmd[5]


\* ------------------------------------------------------------ the SIO bus rule
\* The checksum as the bus defines it, used for what the host sends.
RECURSIVE PlainTurns(_, _, _)
\* the sum of buf[lo..hi]
PlainTurns(buf, lo, hi) ==
    IF lo > hi THEN 0
    ELSE IF lo = hi THEN buf[lo]
    ELSE LET mid  == (lo + hi) \div 2
             half == PlainTurns(buf, lo, mid)
         IN  half + PlainTurns(buf, mid + 1, hi)

PlainSum(buf, i) == PlainTurns(buf, 1, i)

\* the end-around-carry sum of bytes whose plain sum is t
EndAround(t) == IF t = 0 THEN 0 ELSE ((t - 1) % 255) + 1

SioChecksum(buf) == EndAround(PlainSum(buf, Len(buf)))

\* ------------------------------------------------------------ SD card and files

Min(a, b) == IF a < b THEN a ELSE b
Max(a, b) == IF a > b THEN a ELSE b

\* a closed (or never opened) File: operator bool gives false
NoFile == [ open |-> FALSE, id |-> 0, writable |-> FALSE, pos |-> 0 ]

\* what the SD library answers while opendiskfile runs: SD.begin, the open of
\* ATARI/, the FILE_WRITE open and the FILE_READ open of the file. A failure
\* ends the call, so the answers after it are never asked for.
AllOk == [ sd |-> TRUE, root |-> TRUE, rw |-> TRUE, ro |-> TRUE ]
OpenOutcomes ==
    { AllOk,
      [ AllOk EXCEPT !.sd = FALSE ],
      [ AllOk EXCEPT !.root = FALSE ],
      [ AllOk EXCEPT !.rw = FALSE ],
      [ AllOk EXCEPT !.rw = FALSE, !.ro = FALSE ] }

\* what it answers while readsector or writesector runs: seek, and the bytes
\* the read or write transfers
XferOk == [ seek |-> TRUE, xfer |-> SectorSize ]
XferOutcomes == { XferOk, [ XferOk EXCEPT !.seek = FALSE ], [ XferOk EXCEPT !.xfer = 64 ] }

\* header[k] of the source (0-based)
H(header, k) == header[k + 1]

\* the byte a file held at offset off when the card was inserted
InitByte(entry, off) ==
    IF off < Len(entry.hdr) THEN entry.hdr[off + 1]
    ELSE ((off \div SectorSize) * 31 + off * 3 + Len(entry.name)) % 256

\* the byte file f holds at offset off now
FileByte(c, d, f, off) ==
    IF off \in DOMAIN d[f].data THEN d[f].data[off] ELSE InitByte(c[f], off)

\* File::read(data, n) at position pos: the bytes delivered
FileRead(c, d, f, pos, n) ==
    [ j \in 1..Max(0, Min(n, d[f].size - pos)) |-> FileByte(c, d, f, pos + j - 1) ]

\* File::write(data, n) at position pos: the bytes go where seek put the
\* position (an SD build that opens FILE_WRITE files append-only is not modelled)
FileWrite(d, f, pos, bytes) ==
    [ d EXCEPT ![f] =
        [ size |-> Max(@.size, pos + Len(bytes)),
          data |-> [ o \in (DOMAIN @.data) \cup (pos .. pos + Len(bytes) - 1) |->
                       IF o >= pos /\ o < pos + Len(bytes) THEN bytes[o - pos + 1]
                       ELSE @.data[o] ] ] ]

\* the card as inserted: nothing written yet
FreshDisk(c) ==
    [ f \in 1..Len(c) |-> [ size |-> c[f].size, data |-> << >> ] ]

\* n[i] of a NUL-terminated name
CharAt(n, i) == IF i < Len(n) THEN n[i + 1] ELSE 0

IsDigit(ch) == ch >= 48 /\ ch <= 57

\* isrequesteddiskfile: two digits giving index, then '_' for drive 0 or
\* 'B'..'H' for drives 1..7
isrequesteddiskfile(n, drv, index) ==
    /\ IsDigit(CharAt(n, 0))
    /\ IsDigit(CharAt(n, 1))
    /\ (CharAt(n, 0) - 48) * 10 + CharAt(n, 1) - 48 = index
    /\ \/ CharAt(n, 2) = 95 /\ drv = 0
       \/ CharAt(n, 2) >= 66 /\ CharAt(n, 2) <= 72 /\ CharAt(n, 2) - 65 = drv

\* opendiskfile, the scan with root.openNextFile(): the first entry whose name
\* matches, 0 when the directory ends without one
FirstMatch(c, drv, index) ==
    LET hits == { f \in 1..Len(c) : isrequesteddiskfile(c[f].name, drv, index) }
    IN IF hits = {} THEN 0 ELSE CHOOSE f \in hits : \A g \in hits : f <= g

\* a signature test that looks at header[0] only
MagicOk_FirstByte(header) == ~(H(header, 0) # 150)

\* opendiskfile: header[0], header[1]
MagicOk(header) == ~(H(header, 0) # 150 \/ H(header, 1) # 2)

\* opendiskfile: header[5], header[4]
SectorSizeOk(header) == ~(H(header, 5) # 0 \/ H(header, 4) # SectorSize)

\* opendiskfile: unsigned long paragraphs
Paragraphs(header) ==
    ((H(header, 6) * 256 + H(header, 3)) * 256) + H(header, 2)

\* a range test that lets 7 paragraphs through
ParagraphsOk_Low(p) == ~(p < MinParagraphs - 1 \/ p > MaxParagraphs)

\* opendiskfile: the range test on paragraphs
ParagraphsOk(p) == ~(p < MinParagraphs \/ p > MaxParagraphs)

\* opendiskfile: disksize = paragraphs >> 3, kept in a 16-bit unsigned int
SectorsOf(p) == (p \div 8) % 65536

\* SD.open(fullname, FILE_WRITE), else SD.open(fullname, FILE_READ): FILE_WRITE
\* opens positioned at the end of the file, FILE_READ at its start
SDOpen(d, f, io) ==
    IF io.rw
    THEN [ open |-> TRUE, id |-> f, writable |-> TRUE, pos |-> d[f].size ]
    ELSE IF io.ro
    THEN [ open |-> TRUE, id |-> f, writable |-> FALSE, pos |-> 0 ]
    ELSE NoFile

\* opendiskfile: if (diskfile) { diskfile.seek(0); } after the FILE_WRITE open
OpenedFile(d, f, io) ==
    LET file == SDOpen(d, f, io)
    IN IF file.open /\ file.writable THEN [ file EXCEPT !.pos = 0 ] ELSE file

\* an opendiskfile that keeps whatever image is open, without comparing its name
opendiskfile_Sticky(c, d, b, drv, index, io) ==
    IF b.diskfile.open
    THEN b
    ELSE
    LET closed == [ b EXCEPT !.diskfile = NoFile ]
        inited == [ closed EXCEPT !.didinitsd = TRUE ]
        f      == FirstMatch(c, drv, index)
        file   == OpenedFile(d, f, io)
        header == FileRead(c, d, f, file.pos, HeaderSize)
        p      == Paragraphs(header)
    IN  IF ~b.didinitsd /\ ~io.sd THEN closed
        ELSE IF ~io.root THEN inited
        ELSE IF f = 0 THEN inited
        ELSE IF ~file.open THEN inited
        ELSE IF Len(header) # HeaderSize THEN inited
        ELSE IF ~MagicOk(header) THEN inited
        ELSE IF ~SectorSizeOk(header) THEN inited
        ELSE IF ~ParagraphsOk(p) THEN inited
        ELSE [ inited EXCEPT !.diskfile = [ file EXCEPT !.pos = file.pos + HeaderSize ],
                             !.disksize = SectorsOf(p) ]

\* opendiskfile(drive, index): the backend state it leaves
opendiskfile(c, d, b, drv, index, io) ==
    IF b.diskfile.open /\ isrequesteddiskfile(c[b.diskfile.id].name, drv, index)
    THEN b
    ELSE
    LET closed == [ b EXCEPT !.diskfile = NoFile ]
        inited == [ closed EXCEPT !.didinitsd = TRUE ]
        f      == FirstMatch(c, drv, index)
        file   == OpenedFile(d, f, io)
        header == FileRead(c, d, f, file.pos, HeaderSize)
        p      == Paragraphs(header)
    IN  IF ~b.didinitsd /\ ~io.sd THEN closed
        ELSE IF ~io.root THEN inited
        ELSE IF f = 0 THEN inited
        ELSE IF ~file.open THEN inited
        ELSE IF Len(header) # HeaderSize THEN inited
        ELSE IF ~MagicOk(header) THEN inited
        ELSE IF ~SectorSizeOk(header) THEN inited
        ELSE IF ~ParagraphsOk(p) THEN inited
        ELSE [ inited EXCEPT !.diskfile = [ file EXCEPT !.pos = file.pos + HeaderSize ],
                             !.disksize = SectorsOf(p) ]

\* diskavailable()
diskavailable(b) == IF b.diskfile.open THEN TRUE ELSE FALSE

\* a guard that lets the sector just past the end through
SectorRefused_Past(b, sec) == ~b.diskfile.open \/ sec > b.disksize

\* readsector, writesector: the first guard
SectorRefused(b, sec) == ~b.diskfile.open \/ sec >= b.disksize

\* an offset that leaves out the 16 header bytes
SectorOffset_NoHeader(sec) == sec * SectorSize

\* readsector, writesector: the offset handed to seek
SectorOffset(sec) == HeaderSize + sec * SectorSize

\* File::seek(pos): refused beyond the end of the file
SeekOk(d, f, pos, io) == io.seek /\ pos <= d[f].size

\* a readsector that does not compare what diskfile.read returned with 128: the
\* rest of the buffer stays as it was (zero here)
readsector_Unchecked(c, d, b, sec, io) ==
    LET f   == b.diskfile.id
        off == SectorOffset(sec)
        got == FileRead(c, d, f, off, Min(SectorSize, io.xfer))
    IN  IF SectorRefused(b, sec)
        THEN [ ok |-> FALSE, data |-> << >>, diskfile |-> b.diskfile, acc |-> << >> ]
        ELSE IF ~SeekOk(d, f, off, io)
        THEN [ ok |-> FALSE, data |-> << >>, diskfile |-> b.diskfile,
               acc |-> << <<"seek", off, 0>> >> ]
        ELSE [ ok |-> TRUE,
               data |-> [ j \in 1..SectorSize |-> IF j <= Len(got) THEN got[j] ELSE 0 ],
               diskfile |-> [ b.diskfile EXCEPT !.pos = off + Len(got) ],
               acc |-> << <<"seek", off, 0>>, <<"read", off, Len(got)>> >> ]

\* readsector(sector, data): its return value, the buffer, the file handle it
\* leaves and the file accesses it made
readsector(c, d, b, sec, io) ==
    LET f   == b.diskfile.id
        off == SectorOffset(sec)
        got == FileRead(c, d, f, off, Min(SectorSize, io.xfer))
    IN  IF SectorRefused(b, sec)
        THEN [ ok |-> FALSE, data |-> << >>, diskfile |-> b.diskfile, acc |-> << >> ]
        ELSE IF ~SeekOk(d, f, off, io)
        THEN [ ok |-> FALSE, data |-> << >>, diskfile |-> b.diskfile,
               acc |-> << <<"seek", off, 0>> >> ]
        ELSE [ ok |-> Len(got) = SectorSize, data |-> got,
               diskfile |-> [ b.diskfile EXCEPT !.pos = off + Len(got) ],
               acc |-> << <<"seek", off, 0>>, <<"read", off, Len(got)>> >> ]

\* a writesector that does not look at what diskfile.write returned
writesector_Blind(d, b, sec, buf, io) ==
    LET f   == b.diskfile.id
        off == SectorOffset(sec)
        n   == IF b.diskfile.writable THEN Min(SectorSize, io.xfer) ELSE 0
    IN  IF SectorRefused(b, sec)
        THEN [ ok |-> FALSE, disk |-> d, diskfile |-> b.diskfile, acc |-> << >> ]
        ELSE IF ~SeekOk(d, f, off, io)
        THEN [ ok |-> FALSE, disk |-> d, diskfile |-> b.diskfile,
               acc |-> << <<"seek", off, 0>> >> ]
        ELSE [ ok |-> TRUE,
               disk |-> IF n = 0 THEN d ELSE FileWrite(d, f, off, SubSeq(buf, 1, n)),
               diskfile |-> [ b.diskfile EXCEPT !.pos = off + n ],
               acc |-> << <<"seek", off, 0>>, <<"write", off, n>> >> ]

\* a writesector whose diskfile.write stores the bytes whatever mode the file
\* was opened in
writesector_AnyMode(d, b, sec, buf, io) ==
    LET f   == b.diskfile.id
        off == SectorOffset(sec)
        n   == Min(SectorSize, io.xfer)
    IN  IF SectorRefused(b, sec)
        THEN [ ok |-> FALSE, disk |-> d, diskfile |-> b.diskfile, acc |-> << >> ]
        ELSE IF ~SeekOk(d, f, off, io)
        THEN [ ok |-> FALSE, disk |-> d, diskfile |-> b.diskfile,
               acc |-> << <<"seek", off, 0>> >> ]
        ELSE [ ok |-> n = SectorSize,
               disk |-> IF n = 0 THEN d ELSE FileWrite(d, f, off, SubSeq(buf, 1, n)),
               diskfile |-> [ b.diskfile EXCEPT !.pos = off + n ],
               acc |-> << <<"seek", off, 0>>, <<"write", off, n>> >> ]

\* writesector(sector, data): its return value, the card contents and the
\* file handle it leaves, and the file accesses it made
writesector(d, b, sec, buf, io) ==
    LET f   == b.diskfile.id
        off == SectorOffset(sec)
        n   == IF b.diskfile.writable THEN Min(SectorSize, io.xfer) ELSE 0
    IN  IF SectorRefused(b, sec)
        THEN [ ok |-> FALSE, disk |-> d, diskfile |-> b.diskfile, acc |-> << >> ]
        ELSE IF ~SeekOk(d, f, off, io)
        THEN [ ok |-> FALSE, disk |-> d, diskfile |-> b.diskfile,
               acc |-> << <<"seek", off, 0>> >> ]
        ELSE [ ok |-> n = SectorSize,
               disk |-> IF n = 0 THEN d ELSE FileWrite(d, f, off, SubSeq(buf, 1, n)),
               diskfile |-> [ b.diskfile EXCEPT !.pos = off + n ],
               acc |-> << <<"seek", off, 0>>, <<"write", off, n>> >> ]

\* the backend's globals as one value
Backend == [ didinitsd |-> didinitsd, diskfile |-> diskfile, disksize |-> disksize ]

\* the globals before any call: bool didinitsd = false; File diskfile; disksize
InitBackend ==
    /\ didinitsd = FALSE
    /\ diskfile = NoFile
    /\ disksize = 0
    /\ lastopen = << >>


\* the backend's globals and card contents as one value
Snapshot == [ disk |-> disk, didinitsd |-> didinitsd, diskfile |-> diskfile,
              disksize |-> disksize ]

\* the bus, handle_sio and the selector before anything ran
QuietSio ==
    /\ cmdline = "HIGH" /\ rxq = << >>
    /\ hframe = << >> /\ hsent = 0 /\ hdata = "none"
    /\ nframes = 0 /\ nupsets = 0
    /\ pc = "idle" /\ command = << >> /\ cmdtag = << >> /\ commandlength = 0
    /\ drive = 0 /\ sector = 0 /\ selfirst = << >>
    /\ data = << >> /\ trace = << >> /\ lastlog = ""
    /\ pre = Snapshot /\ aborted = 0 /\ shown = {}
    /\ activitylight = 0

\* ------------------------------------------------------------ SpecCk

\* the parts of the sketch the codec harness leaves alone
IdleBackend ==
    /\ card = << >>
    /\ disk = << >>
    /\ InitBackend
    /\ dlast = [ op |-> "none" ]
    /\ QuietSio
    /\ digit0value = 0 /\ digit1value = 0

ByteSamples == {0, 1, 127, 128, 255}

RECURSIVE SpansOf(_)
SpansOf(n) ==
    IF n = 0 THEN { <<>> }
    ELSE LET shorter == SpansOf(n - 1)
         IN shorter \cup { Append(s, b) : s \in { t \in shorter : Len(t) = n - 1 }, b \in ByteSamples }

NoResult == [ kind |-> "none" ]

CkInit ==
    /\ IdleBackend
    /\ ckin \in SpansOf(MaxLen)
    /\ ckwire = <<>>
    /\ ckres = NoResult
    /\ ckpc = "start"

\* the sender runs sendwithchecksum over the span
CkSend ==
    /\ ckpc = "start"
    /\ ckwire' = sendwithchecksum(ckin, Len(ckin))
    /\ ckpc' = "sent"
    /\ UNCHANGED <<ckin, ckres, cardvars, backvars, dlast, siovars>>

\* the line changes the trailing checksum byte to another value
CkCorrupt ==
    /\ ckpc = "sent"
    /\ \E c \in ByteSamples \cup {2, 254} :
          /\ c # ckwire[Len(ckwire)]
          /\ ckwire' = [ckwire EXCEPT ![Len(ckwire)] = c]
    /\ ckpc' = "corrupted"
    /\ UNCHANGED <<ckin, ckres, cardvars, backvars, dlast, siovars>>

\* the receiver runs receivewithchecksum with the same length
CkReceive ==
    /\ ckpc \in {"sent", "corrupted"}
    /\ ckres' = [ kind |-> "receive", clean |-> (ckpc = "sent"),
                  r |-> receivewithchecksum(ckwire, Len(ckin)) ]
    /\ ckpc' = "done"
    /\ UNCHANGED <<ckin, ckwire, cardvars, backvars, dlast, siovars>>

\* a 4-byte span and its checksum arrive as a command frame at handle_sio
CkCommand ==
    /\ ckpc \in {"sent", "corrupted"}
    /\ Len(ckin) = 4
    /\ ckres' = [ kind |-> "command", clean |-> (ckpc = "sent"),
                  ok |-> CommandChecksumOk(ckwire),
                  sum |-> CommandSum(ckwire, 4) ]
    /\ ckpc' = "done"
    /\ UNCHANGED <<ckin, ckwire, cardvars, backvars, dlast, siovars>>

CkNext == CkSend \/ CkCorrupt \/ CkReceive \/ CkCommand

SpecCk == CkInit /\ [][CkNext]_vars

\* ------------------------------------------------------------ SpecDisk

\* a 16-byte image header with the given magic, paragraph count and sector size
HeaderOf(m0, m1, p, slo, shi) ==
    << m0, m1, p % 256, (p \div 256) % 256, slo, shi, (p \div 65536) % 256,
       0, 0, 0, 0, 0, 0, 0, 0, 0 >>

\* a directory entry: the name, the first bytes of the file, the file's size
Entry(name, header, size) ==
    [ name |-> name, hdr |-> SubSeq(header, 1, Min(HeaderSize, size)), size |-> size ]

\* an image file of the size its header announces
ImageEntry(name, header) ==
    Entry(name, header, HeaderSize + SectorSize * (Paragraphs(header) \div 8))

Name07_ == << 48, 55, 95, 65, 46, 65, 84, 82 >>       \* "07_A.ATR"
Name07B == << 48, 55, 66, 46, 65, 84, 82 >>           \* "07B.ATR"

ParagraphSamples == { 0, 7, 8, 9, 16, 512, 458752, 458753, 16777215 }

\* sound headers of every sampled size, and headers unsound in one field or two
SoundHeader(p) == HeaderOf(150, 2, p, SectorSize, 0)
HeaderSamples ==
    { SoundHeader(p) : p \in ParagraphSamples }
    \cup { HeaderOf(149, 2, 512, SectorSize, 0), HeaderOf(150, 3, 512, SectorSize, 0),
           HeaderOf(150, 2, 512, 0, 0), HeaderOf(150, 2, 512, 127, 0),
           HeaderOf(150, 2, 512, SectorSize, 1), HeaderOf(150, 2, 512, 0, 1),
           HeaderOf(2, 150, 512, SectorSize, 0), HeaderOf(149, 2, 7, SectorSize, 0),
           HeaderOf(150, 2, 458753, 0, 1) }

\* cards for SpecDisk: the image for drive 0 has a sampled header and is whole
\* or cut short inside its header; the image for drive 1 is a sound one-sector image
DiskCards ==
    { << e, ImageEntry(Name07B, HeaderOf(150, 2, 8, SectorSize, 0)) >> :
        e \in { ImageEntry(Name07_, h) : h \in HeaderSamples }
              \cup { Entry(Name07_, SoundHeader(512), n) : n \in {0, 15} } }

\* the 128 data bytes a caller hands to writesector
DataBlock1 == [ j \in 1..SectorSize |-> (j * 5 + 1) % 256 ]
DataBlock2 == [ j \in 1..SectorSize |-> 255 - (j % 7) ]

\* sector numbers around the ends of the open image
SectorSamples ==
    { s \in {0, disksize - 1, disksize, 65535} : s >= 0 /\ s <= 65535 }

DiskInit ==
    /\ ckin = << >> /\ ckwire = << >> /\ ckres = NoResult /\ ckpc = "off"
    /\ card \in DiskCards
    /\ disk = FreshDisk(card)
    /\ InitBackend
    /\ dlast = [ op |-> "none" ]
    /\ QuietSio
    /\ digit0value = 0 /\ digit1value = 0

\* a caller runs opendiskfile(drive, index)
DiskOpen ==
    \E call \in { <<0, 7>>, <<1, 7>>, <<0, 8>> }, io \in OpenOutcomes :
        LET drv == call[1]
            index == call[2]
            b == opendiskfile(card, disk, Backend, drv, index, io)
        IN  /\ didinitsd' = b.didinitsd
            /\ diskfile' = b.diskfile
            /\ disksize' = b.disksize
            /\ lastopen' = << drv, index >>
            /\ dlast' = [ op |-> "open", drive |-> drv, index |-> index,
                          nofault |-> (io = AllOk) ]
            /\ UNCHANGED <<ckvars, cardvars, siovars>>

\* a caller runs readsector(sector, data)
DiskRead ==
    \E sec \in SectorSamples, io \in XferOutcomes :
        LET r == readsector(card, disk, Backend, sec, io)
        IN  /\ diskfile' = r.diskfile
            /\ dlast' = [ op |-> "read", sector |-> sec, ok |-> r.ok,
                          data |-> r.data, acc |-> r.acc ]
            /\ UNCHANGED <<ckvars, cardvars, didinitsd, disksize, lastopen, siovars>>

\* a caller runs writesector(sector, data)
DiskWrite ==
    \E sec \in SectorSamples, io \in XferOutcomes :
        LET r == writesector(disk, Backend, sec, DataBlock1, io)
        IN  /\ diskfile' = r.diskfile
            /\ disk' = r.disk
            /\ dlast' = [ op |-> "write", sector |-> sec, ok |-> r.ok,
                          data |-> DataBlock1, acc |-> r.acc ]
            /\ UNCHANGED <<ckvars, card, didinitsd, disksize, lastopen, siovars>>

DiskNext == DiskOpen \/ DiskRead \/ DiskWrite

SpecDisk == DiskInit /\ [][DiskNext]_vars

\* ------------------------------------------------------------ Spec: the card

\* "NNc?.ATR": two digits, the drive character, one more character
Name(d1, d0, ch, x) == << 48 + d1, 48 + d0, ch, x, 46, 65, 84, 82 >>

\* the ATARI directory of Spec, in scan order
MainCard ==
    << ImageEntry(Name(0, 7, 95, 65), SoundHeader(512)),             \* 07_A  64 sectors
       ImageEntry(Name(0, 7, 66, 65), SoundHeader(5768)),            \* 07BA  721 sectors
       ImageEntry(Name(0, 7, 67, 65), SoundHeader(5760)),            \* 07CA  720 sectors
       ImageEntry(Name(0, 8, 95, 65), HeaderOf(150, 2, 512, 0, 1)),  \* 08_A  256-byte sectors
       ImageEntry(Name(0, 7, 95, 66), SoundHeader(8)),               \* 07_B  second match
       ImageEntry(Name(1, 0, 95, 65), SoundHeader(16)),              \* 10_A  2 sectors
       ImageEntry(Name(0, 6, 95, 65), SoundHeader(8)) >>             \* 06_A  1 sector

\* values EEPROM.read(EEPROM_ADDRESS) may give at startup
EepromSamples == {7, 9}

\* ------------------------------------------------------------ Spec: the host

\* a command frame as the host builds it
HostFrame(dev, c, a1, a2) ==
    << dev, c, a1, a2, SioChecksum(<< dev, c, a1, a2 >>) >>

\* the same frame with its checksum byte off by one
BadFrame(dev, c, a1, a2) ==
    [ HostFrame(dev, c, a1, a2) EXCEPT ![5] = (@ + 1) % 256 ]

Frames ==
    { HostFrame(49, CmdStatus, 0, 0), HostFrame(50, CmdStatus, 0, 0),
      HostFrame(51, CmdStatus, 0, 0),
      HostFrame(49, CmdRead, 1, 0), HostFrame(49, CmdRead, 64, 0),
      HostFrame(49, CmdRead, 65, 0), HostFrame(49, CmdRead, 0, 0),
      HostFrame(50, CmdRead, 0, 1),
      HostFrame(49, CmdWrite, 1, 0), HostFrame(49, CmdWrite, 65, 0),
      HostFrame(49, CmdWrite, 0, 0),
      HostFrame(49, 33, 0, 0), HostFrame(52, CmdRead, 1, 0),
      BadFrame(49, CmdRead, 1, 0), BadFrame(48, CmdWrite, 1, 0) }

\* the byte the host sends out of turn
NoiseByte == 255

\* bytes as they sit in the receive queue, sent under assertion n of the
\* command line (0: sent while the line was high)
Tagged(bytes, n) == [ i \in 1..Len(bytes) |-> << bytes[i], n >> ]

\* the bytes of queue entries
Bytes(q) == [ i \in 1..Len(q) |-> q[i][1] ]

\* the host has had its WRITE frame acknowledged and not sent the data block
OwesData == hdata = "owed"

\* hdata once the host hears the answer to the command frame: 'A' to a whole
\* WRITE frame calls for the data block
Heard(byte) ==
    IF byte = ChrA /\ hsent >= CommandSize /\ hframe[2] = CmdWrite /\ hdata = "none"
    THEN "owed" ELSE hdata

\* the host pulls the command line low and picks the frame it will send. It
\* leaves handle_sio the time to get through with the frame before: a new
\* frame starts when handle_sio is back in its idle loop or blocked in
\* receivebyte.
HostAssert ==
    /\ cmdline = "HIGH"
    /\ nframes < MaxFrames
    /\ ~OwesData
    /\ pc \in {"idle", "recv"}
    /\ cmdline' = "LOW"
    /\ nframes' = nframes + 1
    /\ hframe' \in Frames
    /\ hsent' = 0
    /\ hdata' = "none"
    /\ UNCHANGED <<rxq, devvars, selvars, nupsets, disk, backvars, idlevars>>

\* the host sends the next byte of the frame
HostSendByte ==
    /\ cmdline = "LOW"
    /\ hsent < CommandSize
    /\ Len(rxq) < MaxRx
    /\ rxq' = Append(rxq, << hframe[hsent + 1], nframes >>)
    /\ hsent' = hsent + 1
    /\ UNCHANGED <<cmdline, hframe, hdata, nframes, devvars, selvars, nupsets,
                   disk, backvars, idlevars>>

\* the host sends one byte too many before it releases the line
HostExtraByte ==
    /\ cmdline = "LOW"
    /\ hsent = CommandSize
    /\ Len(rxq) < MaxRx
    /\ nupsets < MaxUpsets
    /\ rxq' = Append(rxq, << NoiseByte, nframes >>)
    /\ hsent' = hsent + 1
    /\ nupsets' = nupsets + 1
    /\ UNCHANGED <<cmdline, hframe, hdata, nframes, devvars, selvars,
                   disk, backvars, idlevars>>

\* the host lets the command line go high, whatever it has sent
HostRelease ==
    /\ cmdline = "LOW"
    /\ cmdline' = "HIGH"
    /\ UNCHANGED <<rxq, hframe, hsent, hdata, nframes, devvars, selvars, nupsets,
                   disk, backvars, idlevars>>

\* after a WRITE frame and its acknowledgement the host sends the data block
\* and its checksum, or a wrong checksum
HostSendData ==
    /\ cmdline = "HIGH"
    /\ OwesData
    /\ Len(rxq) < MaxRx
    /\ \E off \in {0, 1} :
          rxq' = rxq \o Tagged(Append(DataBlock1, (SioChecksum(DataBlock1) + off) % 256), 0)
    /\ hdata' = "sent"
    /\ UNCHANGED <<cmdline, hframe, hsent, nframes, devvars, selvars, nupsets,
                   disk, backvars, idlevars>>

\* after a WRITE frame and its acknowledgement the host sends the 128 data
\* bytes and no checksum byte, and takes the block for sent
HostSendShort ==
    /\ cmdline = "HIGH"
    /\ OwesData
    /\ Len(rxq) < MaxRx
    /\ nupsets < MaxUpsets
    /\ rxq' = rxq \o Tagged(DataBlock1, 0)
    /\ hdata' = "sent"
    /\ nupsets' = nupsets + 1
    /\ UNCHANGED <<cmdline, hframe, hsent, nframes, devvars, selvars,
                   disk, backvars, idlevars>>

\* a byte arrives while the command line is high
HostStray ==
    /\ cmdline = "HIGH"
    /\ nupsets < MaxUpsets
    /\ Len(rxq) < MaxRx
    /\ rxq' = Append(rxq, << NoiseByte, 0 >>)
    /\ nupsets' = nupsets + 1
    /\ UNCHANGED <<cmdline, hframe, hsent, hdata, nframes, devvars, selvars,
                   disk, backvars, idlevars>>

Host ==
    \/ HostAssert \/ HostSendByte \/ HostExtraByte \/ HostRelease
    \/ HostSendData \/ HostSendShort \/ HostStray

\* ------------------------------------------------------------ Spec: the selector

\* polldiskselector, the digits after a button event: buttonstate bit 0 counts
\* up, else bit 1 counts down
DigitsAfter(buttonstate, d0, d1) ==
    IF buttonstate % 2 = 1
    THEN LET n0 == IF d0 < 9 THEN d0 + 1 ELSE 0
         IN << n0, IF n0 = 0 THEN (IF d1 < 9 THEN d1 + 1 ELSE 0) ELSE d1 >>
    ELSE IF (buttonstate \div 2) % 2 = 1
    THEN LET n0 == IF d0 > 0 THEN d0 - 1 ELSE 9
         IN << n0, IF n0 = 9 THEN (IF d1 > 0 THEN d1 - 1 ELSE 9) ELSE d1 >>
    ELSE << d0, d1 >>

\* polldiskselector: the timer interrupt. buttonstate is what the two pins read;
\* fire is the test on timesincebuttonchange (first press or key repeat).
polldiskselector ==
    \E buttonstate \in 0..3, fire \in BOOLEAN :
        LET digits == IF fire THEN DigitsAfter(buttonstate, digit0value, digit1value)
                      ELSE << digit0value, digit1value >>
            light  == IF activitylight > 0 THEN activitylight - 1 ELSE activitylight
        IN  /\ nupsets < MaxUpsets
            /\ << digits[1], digits[2], light >> # << digit0value, digit1value, activitylight >>
            /\ digit0value' = digits[1]
            /\ digit1value' = digits[2]
            /\ activitylight' = light
            /\ nupsets' = nupsets + 1
            /\ shown' = IF pc = "select2" THEN shown \cup { << digits[1], digits[2] >> }
                         ELSE shown
            /\ UNCHANGED <<hostvars, pc, command, cmdtag, commandlength, drive, sector,
                           selfirst, data, trace, pre, lastlog, aborted,
                           disk, backvars, idlevars>>

\* getdiskselectorvalue
getdiskselectorvalue(d0, d1) == d0 + d1 * 10

\* ------------------------------------------------------------ Spec: handle_sio

\* the bytes written to SIO, as entries of trace
Tx(bytes) == [ i \in 1..Len(bytes) |-> << "tx", bytes[i] >> ]

IsTx(e) == e[1] = "tx"

\* the bytes written to SIO in a trace
Out(t) == LET w == SelectSeq(t, IsTx) IN [ i \in 1..Len(w) |-> w[i][2] ]

\* a decoder that stops at 0 instead of wrapping below it
SectorOfAux_Floor(aux1, aux2) ==
    IF aux1 + aux2 * 256 = 0 THEN 0 ELSE (aux1 + aux2 * 256 - 1) % 65536

\* a decoder that forgets the bus numbers sectors from 1
SectorOfAux_Raw(aux1, aux2) == (aux1 + aux2 * 256) % 65536

\* handle_sio: sector = command[2] + (command[3] << 8) - 1 in a 16-bit unsigned int
SectorOfAux(aux1, aux2) == (aux1 + aux2 * 256 - 1) % 65536

\* an answer to an unknown command code that acknowledges before it declines
NotSupported_Acked == << ChrA, ChrN >>

\* handle_sio, default: what it writes for a command code it does not know
NotSupported == << ChrN >>

\* a device gate that lets 0x34 through
OtherDevice_Wide(cmd) == cmd[1] < FirstDevice \/ cmd[1] > LastDevice + 1

\* handle_sio: command[0] < 0x31 || command[0] > 0x33
OtherDevice(cmd) == cmd[1] < FirstDevice \/ cmd[1] > LastDevice

\* a status that sets the enhanced density bit from 720 sectors on
StatusBytes_AtLimit(b) ==
    IF diskavailable(b)
    THEN << IF b.disksize >= EnhancedLimit THEN 144 ELSE 16, 0, 224, 0 >>
    ELSE << 0, 128, 224, 0 >>

\* handlecommand_status: the four status bytes
StatusBytes(b) ==
    IF diskavailable(b)
    THEN << IF b.disksize > EnhancedLimit THEN 144 ELSE 16, 0, 224, 0 >>
    ELSE << 0, 128, 224, 0 >>

\* handlecommand_status: what it writes to SIO
handlecommand_status(b) ==
    << ChrC >> \o sendwithchecksum(StatusBytes(b), StatusSize)

\* getdiskselectorvalue: its value when the digit named in first was read
\* earlier and the other digit is read now
SelectorValue(first) ==
    IF first[1] = 0 THEN getdiskselectorvalue(first[2], digit1value)
    ELSE getdiskselectorvalue(digit0value, first[2])

\* the SD card operations of one call that fail
Faults(io, x) == (IF io = AllOk THEN 0 ELSE 1) + (IF x = XferOk THEN 0 ELSE 1)

\* handle_sio, the loop that waits for the command line to go low: a byte that
\* arrived meanwhile is read and dropped
WaitCommandLow ==
    /\ pc = "idle"
    /\ \/ /\ cmdline # "LOW"
          /\ rxq # << >>
          /\ rxq' = Tail(rxq)
          /\ lastlog' = "Received while CMD not active"
          /\ UNCHANGED pc
       \/ /\ cmdline = "LOW"
          /\ pc' = "framing"
          /\ UNCHANGED <<rxq, lastlog>>
    /\ UNCHANGED <<cmdline, hframe, hsent, hdata, nframes,
                   command, cmdtag, commandlength, drive, sector, selfirst, data,
                   trace, pre, selvars, nupsets, disk, backvars, idlevars, aborted, shown>>

\* handle_sio, the loop that reads the command while the line stays low, and
\* the two returns after it
ReadCommand ==
    /\ pc = "framing"
    /\ \/ /\ commandlength < CommandSize
          /\ cmdline = "LOW"
          /\ rxq # << >>
          /\ command' = Append(command, Head(rxq)[1])
          /\ cmdtag' = Append(cmdtag, Head(rxq)[2])
          /\ commandlength' = commandlength + 1
          /\ rxq' = Tail(rxq)
          /\ pc' = IF commandlength + 1 < CommandSize THEN "framing" ELSE "release"
          /\ UNCHANGED <<lastlog, aborted>>
       \/ /\ commandlength < CommandSize
          /\ cmdline # "LOW"
          /\ pc' = "done"
          /\ lastlog' = IF commandlength <= 0 THEN lastlog
                        ELSE "CMD went inactive before receiving full command"
          /\ aborted' = nframes
          /\ UNCHANGED <<command, cmdtag, commandlength, rxq>>
    /\ UNCHANGED <<cmdline, hframe, hsent, hdata, nframes,
                   drive, sector, selfirst, data,
                   trace, pre, selvars, nupsets, disk, backvars, idlevars, shown>>

\* handle_sio, the loop that waits for the command line to go high again:
\* bytes arriving meanwhile are counted and dropped
WaitCommandHigh ==
    /\ pc = "release"
    /\ cmdline # "HIGH"
    /\ rxq # << >>
    /\ commandlength' = commandlength + 1
    /\ rxq' = Tail(rxq)
    /\ UNCHANGED <<cmdline, hframe, hsent, hdata, nframes,
                   pc, command, cmdtag, drive, sector, selfirst, data,
                   trace, pre, lastlog, selvars, nupsets, disk, backvars, idlevars, aborted, shown>>

\* handle_sio once the line is high: the checksum gate, the device gate, and
\* the head of the switch (the acknowledgement, drive and sector; or 'N')
Dispatch ==
    /\ pc = "release"
    /\ cmdline = "HIGH"
    /\ IF ~CommandChecksumOk(command)
       THEN /\ lastlog' = "Ignored command with invalid checksum"
            /\ pc' = "done"
            /\ UNCHANGED <<trace, drive, sector, hdata>>
       ELSE IF OtherDevice(command)
       THEN /\ lastlog' = "Received command for different device"
            /\ pc' = "done"
            /\ UNCHANGED <<trace, drive, sector, hdata>>
       ELSE IF command[2] = CmdStatus
       THEN /\ trace' = trace \o Tx(<< ChrA >>)
            /\ hdata' = Heard(ChrA)
            /\ drive' = command[1] - FirstDevice
            /\ pc' = "select"
            /\ lastlog' = "CMD"
            /\ UNCHANGED sector
       ELSE IF command[2] \in {CmdRead, CmdWrite}
       THEN /\ trace' = trace \o Tx(<< ChrA >>)
            /\ hdata' = Heard(ChrA)
            /\ drive' = command[1] - FirstDevice
            /\ sector' = SectorOfAux(command[3], command[4])
            /\ pc' = "select"
            /\ lastlog' = "CMD"
       ELSE /\ trace' = trace \o Tx(NotSupported)
            /\ hdata' = Heard(NotSupported[1])
            /\ pc' = "done"
            /\ lastlog' = "CMD"
            /\ UNCHANGED <<drive, sector>>
    /\ UNCHANGED <<cmdline, rxq, hframe, hsent, nframes, command, cmdtag, commandlength, selfirst, data, pre,
                   selvars, nupsets, disk, backvars, idlevars, aborted, shown>>

\* getdiskselectorvalue, the first of its two volatile reads: the order of
\* the reads of digit0value and digit1value is the compiler's choice
ReadFirstDigit ==
    /\ pc = "select"
    /\ \E k \in {0, 1} :
          selfirst' = << k, IF k = 0 THEN digit0value ELSE digit1value >>
    /\ shown' = { << digit0value, digit1value >> }
    /\ pc' = "select2"
    /\ UNCHANGED <<hostvars, command, cmdtag, commandlength, drive, sector, data,
                   trace, pre, lastlog, selvars, nupsets, disk, backvars, idlevars, aborted>>

\* case 0x53: the second read of getdiskselectorvalue, opendiskfile,
\* handlecommand_status
HandleStatus ==
    /\ pc = "select2"
    /\ command[2] = CmdStatus
    /\ \E io \in OpenOutcomes :
          LET index == SelectorValue(selfirst)
              b     == opendiskfile(card, disk, Backend, drive, index, io)
          IN  /\ nupsets + Faults(io, XferOk) <= MaxUpsets
              /\ nupsets' = nupsets + Faults(io, XferOk)
              /\ didinitsd' = b.didinitsd
              /\ diskfile' = b.diskfile
              /\ disksize' = b.disksize
              /\ lastopen' = << drive, index >>
              /\ trace' = trace \o << << "opendiskfile", drive, index >> >>
                                \o Tx(handlecommand_status(b))
    /\ pc' = "done"
    /\ selfirst' = << >>
    /\ UNCHANGED <<hostvars, command, cmdtag, commandlength, drive, sector,
                   data, pre, lastlog, selvars, disk, idlevars, aborted, shown>>

\* case 0x52: the second read of getdiskselectorvalue, opendiskfile,
\* handlecommand_read
HandleRead ==
    /\ pc = "select2"
    /\ command[2] = CmdRead
    /\ \E io \in OpenOutcomes, x \in XferOutcomes :
          LET index == SelectorValue(selfirst)
              b     == opendiskfile(card, disk, Backend, drive, index, io)
              r     == readsector(card, disk, b, sector, x)
          IN  /\ nupsets + Faults(io, x) <= MaxUpsets
              /\ nupsets' = nupsets + Faults(io, x)
              /\ didinitsd' = b.didinitsd
              /\ diskfile' = r.diskfile
              /\ disksize' = b.disksize
              /\ lastopen' = << drive, index >>
              /\ trace' = trace \o << << "opendiskfile", drive, index >>,
                                      << "setactivitylight" >>,
                                      << "readsector", sector, r.ok >> >>
                                \o r.acc
                                \o IF r.ok
                                   THEN Tx(<< ChrC >> \o sendwithchecksum(r.data, SectorSize))
                                   ELSE Tx(<< ChrE >>)
    /\ activitylight' = ActivityTicks
    /\ pc' = "done"
    /\ selfirst' = << >>
    /\ UNCHANGED <<hostvars, command, cmdtag, commandlength, drive, sector,
                   data, pre, lastlog, digit0value, digit1value, disk, idlevars, aborted, shown>>

\* case 0x57: the second read of getdiskselectorvalue and opendiskfile;
\* handlecommand_write is entered
BeginWrite ==
    /\ pc = "select2"
    /\ command[2] = CmdWrite
    /\ \E io \in OpenOutcomes :
          LET index == SelectorValue(selfirst)
              b     == opendiskfile(card, disk, Backend, drive, index, io)
          IN  /\ nupsets + Faults(io, XferOk) <= MaxUpsets
              /\ nupsets' = nupsets + Faults(io, XferOk)
              /\ didinitsd' = b.didinitsd
              /\ diskfile' = b.diskfile
              /\ disksize' = b.disksize
              /\ lastopen' = << drive, index >>
              /\ trace' = trace \o << << "opendiskfile", drive, index >> >>
    /\ pc' = "recv"
    /\ selfirst' = << >>
    /\ UNCHANGED <<hostvars, command, cmdtag, commandlength, drive, sector,
                   data, pre, lastlog, selvars, disk, idlevars, aborted, shown>>

\* handlecommand_write: receivewithchecksum returns once the 128 bytes and the
\* checksum byte have arrived; then 'E', or 'A', writesector and 'C' or 'E'
handlecommand_write ==
    /\ pc = "recv"
    /\ Len(rxq) >= SectorSize + 1
    /\ LET got == receivewithchecksum(Bytes(rxq), SectorSize)
       IN  /\ data' = got.data
           /\ rxq' = SubSeq(rxq, SectorSize + 2, Len(rxq))
           /\ IF ~got.ok
              THEN /\ trace' = trace \o << << "receivewithchecksum", rxq[SectorSize + 1][1], FALSE >> >>
                                     \o Tx(<< ChrE >>)
                   /\ lastlog' = "Received sector with invalid checksum"
                   /\ UNCHANGED <<disk, diskfile, nupsets>>
              ELSE \E x \in XferOutcomes :
                   LET w == writesector(disk, Backend, sector, got.data, x)
                   IN  /\ nupsets + Faults(AllOk, x) <= MaxUpsets
                       /\ nupsets' = nupsets + Faults(AllOk, x)
                       /\ disk' = w.disk
                       /\ diskfile' = w.diskfile
                       /\ trace' = trace \o << << "receivewithchecksum", rxq[SectorSize + 1][1], TRUE >> >>
                                         \o Tx(<< ChrA >>)
                                         \o << << "writesector", sector, w.ok >> >>
                                         \o w.acc
                                         \o Tx(<< IF w.ok THEN ChrC ELSE ChrE >>)
                       /\ lastlog' = IF w.ok THEN lastlog
                                     ELSE "Writing sector to SD card failed"
    /\ pc' = "done"
    /\ UNCHANGED <<cmdline, hframe, hsent, hdata, nframes,
                   command, cmdtag, commandlength, drive, sector, selfirst,
                   pre, selvars, didinitsd, disksize, lastopen, idlevars, aborted, shown>>

\* loop(): handle_sio has returned and is called again
Loop ==
    /\ pc = "done"
    /\ pc' = "idle"
    /\ command' = << >> /\ cmdtag' = << >> /\ commandlength' = 0
    /\ drive' = 0 /\ sector' = 0 /\ selfirst' = << >>
    /\ data' = << >>
    /\ trace' = << >> /\ lastlog' = ""
    /\ pre' = Snapshot
    /\ shown' = {}
    /\ UNCHANGED <<hostvars, selvars, nupsets, disk, backvars, idlevars, aborted>>

handle_sio ==
    \/ WaitCommandLow \/ ReadCommand \/ WaitCommandHigh \/ Dispatch
    \/ ReadFirstDigit \/ HandleStatus \/ HandleRead \/ BeginWrite
    \/ handlecommand_write

\* setup(): initdiskselector reads the saved selector value
Init ==
    /\ ckin = << >> /\ ckwire = << >> /\ ckres = NoResult /\ ckpc = "off"
    /\ card = MainCard
    /\ disk = FreshDisk(card)
    /\ InitBackend
    /\ dlast = [ op |-> "none" ]
    /\ QuietSio
    /\ \E s \in EepromSamples :
          LET v == IF s > 99 THEN 0 ELSE s
          IN  digit0value = v % 10 /\ digit1value = v \div 10

Next == Host \/ polldiskselector \/ handle_sio \/ Loop

Spec == Init /\ [][Next]_vars

\* ============================================================ claims

\* ------------------------------------------------------------ C1
\* C1 (SpecCk): the bytes sendwithchecksum writes for a span, fed to
\* receivewithchecksum with the same length, fill the buffer with the span and
\* return true; with the trailing checksum byte changed to any other value
\* the call returns false.
C1_RoundTrip ==
    /\ (ckres.kind = "receive" /\ ckres.clean) =>
          (ckres.r.data = ckin /\ ckres.r.ok = TRUE)
    /\ (ckres.kind = "receive" /\ ~ckres.clean) => ckres.r.ok = FALSE
    /\ ckpc = "sent" =>
          \A c \in Byte \ { ckwire[Len(ckwire)] } :
              receivewithchecksum([ckwire EXCEPT ![Len(ckwire)] = c], Len(ckin)).ok = FALSE

\* a span whose sum carries was sent, corrupted in its last byte and refused
C1_Witness ==
    /\ ckres.kind = "receive" /\ ~ckres.clean /\ ckres.r.ok = FALSE
    /\ ckres.r.data = ckin
    /\ ckin = << 255, 128, 1 >>

\* ------------------------------------------------------------ C2
\* C2 (SpecCk): the checksum is the end-around-carry sum of the bytes: it lies
\* in 0..255, it is 1 (not 0) when the bytes sum to exactly 256, and the copies
\* in sendwithchecksum, receivewithchecksum and handle_sio agree on it.
C2_Carry ==
    LET n == Len(ckin)
        t == PlainSum(ckin, n)
    IN  /\ ckpc # "start" /\ ckpc # "corrupted" /\ ~(ckres.kind # "none" /\ ~ckres.clean) =>
            /\ ckwire[n + 1] \in 0..255
            /\ ckwire[n + 1] = EndAround(t)
            /\ t = 256 => ckwire[n + 1] = 1
        /\ (ckres.kind = "receive" /\ ckres.clean) => ckres.r.ok
        /\ (ckres.kind = "command" /\ ckres.clean) =>
            (ckres.ok /\ ckres.sum = ckwire[n + 1] /\ ckres.sum = RecvSum(ckin, n))

\* four bytes summing to exactly 256 went through the sender and the command check
C2_Witness ==
    /\ ckres.kind = "command" /\ ckres.clean /\ ckres.ok
    /\ PlainSum(ckin, Len(ckin)) = 256
    /\ ckres.sum = 1

\* ------------------------------------------------------------ C8
\* what the image format asks of a header
FormatParagraphs(h) == h[7] * 65536 + h[4] * 256 + h[3]
FormatHeaderOk(h) ==
    /\ Len(h) = 16
    /\ h[1] = 150 /\ h[2] = 2
    /\ h[5] = 128 /\ h[6] = 0
    /\ FormatParagraphs(h) >= 8 /\ FormatParagraphs(h) <= 458752

\* C8 (SpecDisk): an image is open only if its header has the magic bytes,
\* sector size (128, 0) and a paragraph count in [8, 0x70000]; the sector
\* count is then that count >> 3 (0x200 gives 64). After opendiskfile selected
\* a file whose header fails any of this, or is shorter than 16 bytes, no
\* image is open.
C8_HeaderValidation ==
    /\ diskfile.open =>
          LET h == card[diskfile.id].hdr
          IN  /\ FormatHeaderOk(h)
              /\ disksize = FormatParagraphs(h) \div 8
              /\ FormatParagraphs(h) = 512 => disksize = 64
    /\ dlast.op = "open" =>
          LET f == FirstMatch(card, dlast.drive, dlast.index)
          IN  (f # 0 /\ ~FormatHeaderOk(card[f].hdr)) => ~diskavailable(Backend)

\* the header of the spec's example was accepted: 0x200 paragraphs, 64 sectors
C8_Witness ==
    /\ dlast.op = "open" /\ dlast.drive = 0 /\ dlast.index = 7
    /\ diskfile.open /\ diskfile.id = 1
    /\ FormatParagraphs(card[1].hdr) = 512
    /\ disksize = 64

\* ------------------------------------------------------------ C9
\* C9 (SpecDisk): readsector and writesector return false, and touch no file,
\* when no image is open or the sector index is at or past the sector count;
\* every access they make lies in [16, 16 + 128*sectorCount) of the open
\* image, and no byte of any header is ever written.
C9_BoundsSafety ==
    /\ dlast.op \in {"read", "write"} =>
          /\ (~diskfile.open \/ dlast.sector >= disksize) =>
                (dlast.ok = FALSE /\ dlast.acc = << >>)
          /\ \A i \in DOMAIN dlast.acc :
                /\ dlast.acc[i][2] >= 16
                /\ dlast.acc[i][2] + dlast.acc[i][3] <= 16 + 128 * disksize
    /\ \A f \in DOMAIN disk :
          \A o \in DOMAIN disk[f].data :
              o >= 16 /\ o < 16 + 128 * (FormatParagraphs(card[f].hdr) \div 8)

\* a write to the first sector past the end of an open image was refused
C9_Witness ==
    /\ dlast.op = "write" /\ diskfile.open /\ diskfile.writable
    /\ dlast.sector = disksize /\ dlast.ok = FALSE /\ dlast.acc = << >>


\* ---- shared by the claims about one call of handle_sio

\* handle_sio has returned from a call in which it captured a whole frame
Dispatched == pc = "done" /\ Len(command) = CommandSize

\* byte 5 is the SIO checksum of bytes 1-4
GoodChecksum(cmd) == cmd[5] = SioChecksum(SubSeq(cmd, 1, 4))

\* the device-id byte is 0x31..0x33
OurDevice(cmd) == cmd[1] \in 49..51

\* a whole frame that passed both gates and carries command code c
Validated(c) == Dispatched /\ GoodChecksum(command) /\ OurDevice(command) /\ command[2] = c

\* the entries of trace of one kind
Events(kind) == SelectSeq(trace, LAMBDA e : e[1] = kind)

\* the card contents and the backend's globals are as handle_sio found them
BackendUntouched ==
    /\ Snapshot = pre
    /\ \A i \in 1..Len(trace) : trace[i][1] = "tx"

\* C3: a wholly captured frame makes handle_sio write to the bus only if byte 5
\* is the checksum of bytes 1-4 and the device id is 0x31..0x33. A frame that
\* fails a gate gives no byte on the bus, no backend call, card and backend
\* globals unchanged, and handle_sio returns; the checksum is tested first (a
\* frame failing both is reported as a checksum failure).
C3_SilentDrop ==
    Dispatched =>
        /\ Out(trace) # << >> => GoodChecksum(command) /\ OurDevice(command)
        /\ ~(GoodChecksum(command) /\ OurDevice(command)) =>
              /\ trace = << >>
              /\ BackendUntouched
              /\ lastlog = IF ~GoodChecksum(command)
                           THEN "Ignored command with invalid checksum"
                           ELSE "Received command for different device"

\* a frame for device 0x30 with a wrong checksum was dropped at the checksum gate
C3_Witness ==
    /\ pc = "done"
    /\ command = BadFrame(48, CmdWrite, 1, 0)
    /\ trace = << >>
    /\ lastlog = "Ignored command with invalid checksum"


\* the 128 bytes an image file held at zero-based sector idx when handle_sio
\* was entered: they follow the 16 header bytes
StoredSector(f, idx) ==
    [ j \in 1..128 |-> FileByte(card, pre.disk, f, 16 + 128 * idx + j - 1) ]

\* C4: for a validated READ frame the bus output is 'A' and then either 'C',
\* the 128 bytes stored at zero-based sector aux1 + aux2*256 - 1 of the image
\* selected for (device id - 0x31, the selector value read), and their
\* checksum, or 'E' alone. aux (1,0) is sector 0, aux (0,1) is sector 255.
C4_ReadResponse ==
    Validated(CmdRead) =>
        LET sel == Events("opendiskfile")[1][3]
            f   == FirstMatch(card, command[1] - 49, sel)
            idx == command[3] + command[4] * 256 - 1
        IN  \/ Out(trace) = << ChrA, ChrE >>
            \/ /\ f # 0
               /\ idx >= 0
               /\ command = HostFrame(49, CmdRead, 1, 0) => idx = 0
               /\ command = HostFrame(50, CmdRead, 0, 1) => idx = 255
               /\ Out(trace) = << ChrA, ChrC >> \o StoredSector(f, idx)
                                   \o << SioChecksum(StoredSector(f, idx)) >>

\* READ with aux (0,1) on drive 2 was answered with sector 255 of the image
C4_Witness ==
    /\ Validated(CmdRead)
    /\ command = HostFrame(50, CmdRead, 0, 1)
    /\ Len(Out(trace)) = 131
    /\ Out(trace)[2] = ChrC

\* C5: a validated WRITE frame followed by 128 data bytes and a checksum byte
\* that is not their checksum is answered with 'A' for the frame and then the
\* one byte 'E'; writesector is not called and no byte of any file changes.
C5_CorruptedData ==
    ( /\ Validated(CmdWrite)
      /\ Events("receivewithchecksum") # << >>
      /\ Events("receivewithchecksum")[1][2] # SioChecksum(data) )
    =>  /\ Out(trace) = << ChrA, ChrE >>
        /\ Events("writesector") = << >>
        /\ Events("write") = << >>
        /\ disk = pre.disk

\* a data block with a wrong checksum byte arrived for sector 0 of an image
\* open for writing
C5_Witness ==
    /\ Validated(CmdWrite)
    /\ command = HostFrame(49, CmdWrite, 1, 0)
    /\ data = DataBlock1
    /\ Events("receivewithchecksum")[1][2] = (SioChecksum(DataBlock1) + 1) % 256
    /\ diskfile.open /\ diskfile.writable /\ disksize > 0

\* C6: for a validated WRITE frame handle_sio sends 'A', receives 128 data
\* bytes and the checksum byte, sends 'A' only if the checksum fits, writes the
\* sector only after that 'A', and ends with one byte: 'C' if and only if
\* writesector succeeded (the 128 bytes are then in the file), 'E' otherwise.
\* The bus output is A E, A A E or A A C.
C6_WriteOrdering ==
    /\ pc = "recv" => Out(trace) = << ChrA >> /\ disk = pre.disk
    /\ Validated(CmdWrite) =>
        LET steps == SelectSeq(trace, LAMBDA e :
                        e[1] \in {"tx", "receivewithchecksum", "writesector", "write"})
            f     == diskfile.id
        IN  /\ Out(trace) \in { << ChrA, ChrE >>, << ChrA, ChrA, ChrE >>,
                                << ChrA, ChrA, ChrC >> }
            /\ steps[1] = << "tx", ChrA >>
            /\ steps[2][1] = "receivewithchecksum"
            /\ steps[2][3] = (steps[2][2] = SioChecksum(data))
            /\ IF steps[2][3]
               THEN /\ steps[3] = << "tx", ChrA >>
                    /\ steps[4][1] = "writesector"
                    /\ \A i \in 5..(Len(steps) - 1) : steps[i][1] = "write"
                    /\ steps[Len(steps)] = << "tx", IF steps[4][3] THEN ChrC ELSE ChrE >>
                    /\ steps[4][3] =>
                          /\ diskfile.open
                          /\ \A j \in 1..128 :
                                FileByte(card, disk, f, 16 + 128 * sector + j - 1) = data[j]
               ELSE /\ steps = << steps[1], steps[2], << "tx", ChrE >> >>
                    /\ disk = pre.disk

\* a WRITE under the second assertion ended A A C with the block in the file
C6_Witness ==
    /\ Validated(CmdWrite)
    /\ Out(trace) = << ChrA, ChrA, ChrC >>
    /\ disk # pre.disk
    /\ nframes = 2

\* the sector count the header of the open image gives: paragraphs of 16
\* bytes in sectors of 128
ImageSectors == (FormatParagraphs(card[diskfile.id].hdr) * 16) \div 128

\* C7: for a validated STATUS frame the bus output is 'A', 'C', four status
\* bytes and their checksum. With no image available after the selection the
\* bytes are 0x00, 0x80, 0xE0, 0x00; with an image they are 0x10 (0x90 if and
\* only if the image has more than 720 sectors), 0x00, 0xE0, 0x00. What a
\* STATUS says follows the image available now, not an earlier answer.
C7_StatusResponse ==
    Validated(CmdStatus) =>
        LET rec == IF ~diskfile.open THEN << 0, 128, 224, 0 >>
                   ELSE << 16 + (IF ImageSectors > 720 THEN 128 ELSE 0), 0, 224, 0 >>
        IN  Out(trace) = << ChrA, ChrC >> \o rec \o << SioChecksum(rec) >>

\* the selector stood at 09 with no image when a first command was handled,
\* was stepped to 10, and STATUS now says ready
C7_Witness ==
    /\ Validated(CmdStatus)
    /\ nframes = 2
    /\ digit1value = 1 /\ digit0value = 0
    /\ pre.didinitsd /\ ~pre.diskfile.open
    /\ Out(trace) = << ChrA, ChrC, 16, 0, 224, 0, 240 >>


\* C10: when the command line goes high after 0 to 4 bytes were captured,
\* handle_sio returns with nothing written to the bus and no backend call, and
\* the frame captured under the next assertion holds no byte that was sent
\* under the assertion of the frame given up.
C10_Recovery ==
    /\ (pc = "done" /\ commandlength < CommandSize) =>
          trace = << >> /\ BackendUntouched
    /\ pc = "idle" => command = << >> /\ commandlength = 0
    /\ (aborted > 0 /\ nframes > aborted) =>
          \A i \in 1..Len(cmdtag) : cmdtag[i] # aborted


\* ------------------------------------------------------------ C11
\* C11: the value getdiskselectorvalue hands to opendiskfile is digit0value +
\* 10*digit1value of one digit pair the selector held while the call read the
\* digits, under every placing of the timer interrupt; stepping from 09 to 10
\* it is 9 or 10, never 19 or 0.
C11_NoTornRead ==
    \A i \in 1..Len(trace) :
        trace[i][1] = "opendiskfile" =>
            \E p \in shown : trace[i][3] = p[1] + 10 * p[2]

\* ------------------------------------------------------------ C12
\* the open image was opened by the FILE_READ fallback
ReadOnly == diskfile.open /\ ~diskfile.writable

\* the backend with the same image open for writing
AsWritable == [ Backend EXCEPT !.diskfile.writable = TRUE ]

\* sector indexes tried on the open image
ProbeSectors == { s \in {0, 1, disksize - 1, disksize, 65535} : s >= 0 }

\* C12: while the image is open read-only, writesector returns false for
\* every sector index and changes no byte, so a validated WRITE whose data
\* block arrived with a fitting checksum ends A, A, E with the card unchanged;
\* readsector and the status bytes are what they are for the same image open
\* for writing, and a READ that succeeds returns the stored sector.
C12_ReadOnlyMedia ==
    ReadOnly =>
        /\ \A sec \in ProbeSectors, x \in XferOutcomes :
              LET w  == writesector(disk, Backend, sec, DataBlock1, x)
                  r  == readsector(card, disk, Backend, sec, x)
                  rw == readsector(card, disk, AsWritable, sec, x)
              IN  /\ w.ok = FALSE /\ w.disk = disk
                  /\ r.ok = rw.ok /\ r.data = rw.data
        /\ StatusBytes(Backend) = StatusBytes(AsWritable)
        /\ Validated(CmdWrite) =>
              /\ \A i \in 1..Len(trace) : trace[i][1] = "writesector" => trace[i][3] = FALSE
              /\ Out(trace)[Len(Out(trace))] = ChrE
              /\ Events("receivewithchecksum")[1][3] => Out(trace) = << ChrA, ChrA, ChrE >>
              /\ disk = pre.disk
        /\ (Validated(CmdRead) /\ Events("readsector")[1][3]) =>
              Out(trace) = << ChrA, ChrC >> \o StoredSector(diskfile.id, sector)
                              \o << SioChecksum(StoredSector(diskfile.id, sector)) >>
        /\ Validated(CmdStatus) => Out(trace)[3] \in {16, 144}

\* a WRITE of sector 0 with a fitting data block reached diskfile.write on an
\* image opened read-only, stored nothing and ended A, A, E
C12_Witness ==
    /\ Validated(CmdWrite) /\ ReadOnly
    /\ sector = 0 /\ data = DataBlock1
    /\ Events("writesector") = << << "writesector", 0, FALSE >> >>
    /\ Events("write") = << << "write", 16, 0 >> >>
    /\ Out(trace) = << ChrA, ChrA, ChrE >>

\* ------------------------------------------------------------ C13
\* handle_sio is in or past the handler of a validated STATUS, READ or WRITE
Served ==
    /\ pc \in {"recv", "done"} /\ Len(command) = CommandSize
    /\ GoodChecksum(command) /\ OurDevice(command)
    /\ command[2] \in {CmdStatus, CmdRead, CmdWrite}

NoImage == ~diskfile.open
OutOfRange == diskfile.open /\ sector >= disksize
FailedSeek == Events("seek") # << >> /\ Events("read") = << >> /\ Events("write") = << >>
ShortTransfer ==
    \E i \in 1..Len(trace) : trace[i][1] \in {"read", "write"} /\ trace[i][3] < 128
MediaFault == NoImage \/ OutOfRange \/ FailedSeek \/ ShortTransfer

\* the places of 'E' in the bus output of the call
ErrorBytes == { i \in 1..Len(Out(trace)) : Out(trace)[i] = ChrE }

\* C14: under every media fault a validated READ ends A, E and a validated
\* WRITE whose data block arrived ends with one E as its last byte (A, E or
\* A, A, E); a validated STATUS ends with the whole record A, C, four bytes and
\* checksum, the not-ready record when no image is open. Having returned,
\* handle_sio is called again.
C14_NoHang ==
    /\ (Validated(CmdRead) /\ MediaFault) => Out(trace) = << ChrA, ChrE >>
    /\ (Validated(CmdWrite) /\ MediaFault) =>
          /\ Out(trace) \in { << ChrA, ChrE >>, << ChrA, ChrA, ChrE >> }
          /\ ErrorBytes = { Len(Out(trace)) }
    /\ Validated(CmdStatus) =>
          /\ Len(Out(trace)) = 2 + StatusSize + 1
          /\ NoImage => Out(trace) = << ChrA, ChrC, 0, 128, 224, 0, 97 >>
    /\ pc = "done" => ENABLED Loop

\* a READ of sector 0 of an open image whose seek failed ended A, E
C14_Witness ==
    /\ Validated(CmdRead) /\ diskfile.open /\ sector = 0
    /\ FailedSeek
    /\ Out(trace) = << ChrA, ChrE >>

\* ------------------------------------------------------------ C15
\* C15: a wholly captured frame with a fitting checksum and a device id
\* 0x31..0x33 whose command code is none of 0x53, 0x52, 0x57 puts the one byte
\* 'N' on the bus, with no 'A' before it and nothing after; the call makes no
\* backend call and does not set the activity light, and the open image, its
\* sector count and the card contents are as handle_sio found them.
C15_Unsupported ==
    ( /\ Dispatched /\ GoodChecksum(command) /\ OurDevice(command)
      /\ command[2] \notin {83, 82, 87} )
    =>  /\ trace = << << "tx", ChrN >> >>
        /\ Out(trace) = << ChrN >>
        /\ BackendUntouched
        /\ diskfile = pre.diskfile /\ disksize = pre.disksize /\ disk = pre.disk

\* command code 0x21 for D1, sent while the image of an earlier command was
\* open, was declined
C15_Witness ==
    /\ Dispatched /\ command = HostFrame(49, 33, 0, 0)
    /\ nframes = 2 /\ pre.diskfile.open /\ diskfile.open
    /\ Out(trace) = << ChrN >>

\* ------------------------------------------------------------ C16
\* the first 16 bytes the file holds now
HeaderNow(f) == [ k \in 1..Min(16, disk[f].size) |-> FileByte(card, disk, f, k - 1) ]

\* C16: between backend calls the one file handle is closed or names a
\* directory entry; when diskavailable() is true that entry's name fits the
\* (drive, index) of the last opendiskfile call, its header, also as the file
\* holds it now, has the magic bytes, sector size 128 and a paragraph count in
\* [8, 0x70000], and disksize is that count >> 3, in [1, 0xE000]. After a
\* call of opendiskfile that found no file or a file with an unsound header
\* no image is open, also when the call before had opened one.
C16_OpenImageValid ==
    /\ ~diskfile.open => diskfile = NoFile
    /\ diskavailable(Backend) =>
          LET f == diskfile.id
          IN  /\ f \in 1..Len(card)
              /\ lastopen # << >>
              /\ isrequesteddiskfile(card[f].name, lastopen[1], lastopen[2])
              /\ FormatHeaderOk(card[f].hdr)
              /\ HeaderNow(f) = card[f].hdr
              /\ disksize = FormatParagraphs(HeaderNow(f)) \div 8
              /\ disksize >= 1 /\ disksize <= 57344
    /\ dlast.op = "open" =>
          LET f == FirstMatch(card, dlast.drive, dlast.index)
          IN  /\ lastopen = << dlast.drive, dlast.index >>
              /\ (f = 0 \/ ~FormatHeaderOk(card[f].hdr)) => ~diskavailable(Backend)

\* opendiskfile(0, 8) found no file after an earlier call had opened an image
\* of 64 sectors: no image is open, disksize still holds 64
C16_Witness ==
    /\ dlast.op = "open" /\ dlast.drive = 0 /\ dlast.index = 8 /\ dlast.nofault
    /\ ~diskavailable(Backend)
    /\ didinitsd /\ disksize = 64

\* ------------------------------------------------------------ C17
\* C17: no byte that arrived on the serial line while the command line was
\* high is ever stored into command[], under every interleaving of arrivals,
\* command line changes and the steps of handle_sio; the bytes of a dispatched
\* frame all arrived while the line was low.
C17_StrayDiscarded ==
    /\ \A i \in 1..Len(cmdtag) : cmdtag[i] # 0
    /\ Dispatched => \A i \in 1..CommandSize : cmdtag[i] > 0

\* ------------------------------------------------------------ C18
\* C18: once a whole frame is captured and the command line released, the
\* call of handle_sio gets to its return without waiting for the host: in
\* particular, when the host has sent what it sends as the data block of a
\* WRITE, handlecommand_write is not left waiting in receivebyte for bytes
\* that are not there.
C18_RunToCompletion ==
    (pc = "recv" /\ hdata = "sent") => Len(rxq) >= SectorSize + 1

\* ------------------------------------------------------------ C19
\* C19: a validated READ or WRITE frame with aux1 = 0 and aux2 = 0 decodes to
\* sector 65535 (0 - 1 in 16 bits), which is at or past the sector count of
\* any image (at most 0xE000): readsector or writesector returns false
\* without a seek, read or write, the call ends with 'E' (A, E for READ; A, E
\* or A, A, E for WRITE) and no byte of any file changes.
C19_SectorZero ==
    \A c \in {CmdRead, CmdWrite} :
        (Validated(c) /\ command[3] = 0 /\ command[4] = 0) =>
            /\ sector = 65535
            /\ sector > 57344
            /\ diskfile.open => sector >= disksize
            /\ \A i \in 1..Len(trace) :
                  /\ trace[i][1] \in {"readsector", "writesector"} =>
                        trace[i] = << trace[i][1], 65535, FALSE >>
                  /\ trace[i][1] \notin {"seek", "read", "write"}
            /\ c = CmdRead => Out(trace) = << ChrA, ChrE >>
            /\ c = CmdWrite =>
                  Out(trace) \in { << ChrA, ChrE >>, << ChrA, ChrA, ChrE >> }
            /\ disk = pre.disk

\* WRITE with aux (0,0) and a fitting data block on a writable image: refused
\* by writesector, answered A, A, E
C19_Witness ==
    /\ Validated(CmdWrite) /\ command = HostFrame(49, CmdWrite, 0, 0)
    /\ diskfile.open /\ diskfile.writable /\ disksize = 64
    /\ Events("writesector") = << << "writesector", 65535, FALSE >> >>
    /\ Out(trace) = << ChrA, ChrA, ChrE >>

\* ------------------------------------------------------------ C20
\* the offsets at which a file differs, or may differ, from the card as inserted
Touched(d, f) == (DOMAIN d[f].data) \cup (0..15)

\* C20: a WRITE that ends with 'C' for zero-based sector i has put the 128
\* received data bytes at bytes [16 + 128*i, 16 + 128*(i+1)) of the open image
\* and changed nothing else: the header, the other sectors, the file's size
\* and the other files are as before the call. A later READ of a sector so
\* written, on the same drive and selector value, returns those 128 bytes.
C20_WriteFrame ==
    /\ (Validated(CmdWrite) /\ Out(trace) = << ChrA, ChrA, ChrC >>) =>
          LET f  == diskfile.id
              lo == 16 + 128 * sector
          IN  /\ diskfile.open /\ sector < disksize
              /\ data = DataBlock1
              /\ \A j \in 1..128 : FileByte(card, disk, f, lo + j - 1) = data[j]
              /\ disk[f].size = pre.disk[f].size
              /\ \A o \in Touched(disk, f) \cup Touched(pre.disk, f) :
                    (o < lo \/ o >= lo + 128) =>
                        FileByte(card, disk, f, o) = FileByte(card, pre.disk, f, o)
              /\ \A g \in DOMAIN disk : g # f => disk[g] = pre.disk[g]
    /\ (Validated(CmdRead) /\ diskfile.open /\ Len(Out(trace)) > 2) =>
          LET f  == diskfile.id
              lo == 16 + 128 * sector
          IN  (\A j \in 1..128 : (lo + j - 1) \in DOMAIN pre.disk[f].data) =>
                  Out(trace) = << ChrA, ChrC >> \o DataBlock1 \o << SioChecksum(DataBlock1) >>

\* sector 0 of the image of drive 1 was written by the first command and read
\* back by the second
C20_Witness ==
    /\ Validated(CmdRead) /\ command = HostFrame(49, CmdRead, 1, 0)
    /\ nframes = 2 /\ diskfile.open /\ diskfile.id = 1
    /\ 16 \in DOMAIN pre.disk[1].data /\ 143 \in DOMAIN pre.disk[1].data
    /\ Out(trace) = << ChrA, ChrC >> \o DataBlock1 \o << SioChecksum(DataBlock1) >>
    /\ DataBlock1 # [ j \in 1..128 |-> InitByte(card[1], 16 + j - 1) ]

=============================================================================
